---- MODULE Spec2Model ----
(***************************************************************************)
(* Model of the sequence container of Sequence.h: the local, fixed         *)
(* capacity storage (sequence_storage<false, false, T, SIZE, CAP>) under   *)
(* the three element locations FRONT, MIDDLE and BACK, the two push        *)
(* operations and the destructor.  The other storage specialisations of    *)
(* the header have no add/shift/reallocate and cannot be instantiated with *)
(* a location strategy, so they have no behaviour to model.                *)
(*                                                                         *)
(* Memory is modelled slot by slot.  A slot holds a live element (a value) *)
(* or no object at all (Uninit).  elements has one slot more than the      *)
(* inline array: index CAP is the memory directly behind the array, which  *)
(* the code reaches in one case.  Reading a slot that holds no object      *)
(* yields an arbitrary value, and a write behind the array either goes     *)
(* unnoticed or ends the program.                                          *)
(***************************************************************************)
EXTENDS Integers, Sequences, FiniteSets, TLC

\* Largest capacity (template parameter CAP) the model instantiates.
MaxCap == 3
\* Element values pushed are 1..MaxVal.
MaxVal == 2
\* Number of push calls made beyond the capacity.
ExtraCalls == 1
\* Narrow size types have 1..MaxBits bits.
MaxBits == 2
\* Descriptors are drawn with increment in 0..MaxIncrement.
MaxIncrement == 1
MaxMiddleCap == 4

Values == 1..MaxVal
Locations == {"FRONT", "MIDDLE", "BACK"}
\* A slot of the storage that holds no object.
Uninit == 0

\* Width in bits of size_t, the default size_type.
SizeTBits == 64

VARIABLES
    TRAITS,     \* the other fields of the sequence_traits descriptor and of T
    LOC,        \* template parameter: sequence_traits::location
    CAP,        \* template parameter: sequence_traits::capacity
    m_size,     \* sequence_storage::m_size
    m_offset,   \* sequence_management<MIDDLE>::m_offset (unused otherwise)
    elements,   \* sequence_storage::m_storage.elements, plus the slot behind it
    phase,      \* "alive", "destroyed" (after ~sequence) or "crashed"
    hist,       \* the pushes that returned normally, in call order
    calls,      \* number of push calls made so far
    last,       \* what the last push call did
    ctors,      \* element constructions so far (instrumented element type)
    dtors,      \* element destructions so far (instrumented element type)
    dtor_runs,  \* destructor runs made by ~sequence
    dtor_dead   \* of these, runs on a slot that held no object

vars == <<TRAITS, LOC, CAP, m_size, m_offset, elements, phase, hist, calls, last,
          ctors, dtors, dtor_runs, dtor_dead>>

----------------------------------------------------------------------------
(* The object a member function works on: the data members and a record of *)
(* what the call has done so far.                                          *)

NoEvents ==
    [thrown |-> FALSE, realloc |-> FALSE, oob |-> FALSE, uninit_read |-> FALSE,
     over_live |-> FALSE, dead_dtor |-> FALSE, assert_failed |-> FALSE,
     add_slot |-> -1, add_over_live |-> FALSE, moved |-> 0, ctors |-> 0,
     dtors |-> 0, allocs |-> 0, recentered |-> FALSE]

Self ==
    [m_size |-> m_size, m_offset |-> m_offset, elements |-> elements,
     ev |-> NoEvents]

\* Conversion to size_type (SIZE), an unsigned integer of TRAITS.size_bits
\* bits.  No value of the model reaches the range of size_t.
to_size_type(x) ==
    IF TRAITS.size_bits >= SizeTBits THEN x ELSE x % (2 ^ TRAITS.size_bits)

capacity == CAP
size(o) == o.m_size
capacity_start == 0
capacity_end == CAP

InCapacity(p) == p >= capacity_start /\ p < capacity_end

\* new(p) value_type(v)
Construct(o, p, v) ==
    [o EXCEPT !.elements = IF p \in DOMAIN @ THEN [@ EXCEPT ![p] = v] ELSE @,
              !.ev.oob = @ \/ ~InCapacity(p),
              !.ev.over_live = @ \/ (p \in DOMAIN o.elements /\ o.elements[p] # Uninit),
              !.ev.ctors = @ + 1]

\* p->~value_type()
Destruct(o, p) ==
    [o EXCEPT !.elements = IF p \in DOMAIN @ THEN [@ EXCEPT ![p] = Uninit] ELSE @,
              !.ev.oob = @ \/ ~InCapacity(p),
              !.ev.dead_dtor = @ \/ (p \in DOMAIN o.elements /\ o.elements[p] = Uninit),
              !.ev.dtors = @ + 1]

\* *p, read to copy-construct from it; junk gives what a slot without an
\* object is read as.
Deref(o, p, junk) ==
    IF p \in DOMAIN o.elements /\ o.elements[p] # Uninit THEN o.elements[p]
    ELSE IF p \in DOMAIN junk THEN junk[p] ELSE Uninit

CheckAssert(o, cond) == [o EXCEPT !.ev.assert_failed = @ \/ ~cond]

add(o, p, e) ==
    LET o1 == CheckAssert(o, size(o) < capacity)
        o2 == Construct(o1, p, e)
    IN  [o2 EXCEPT !.m_size = to_size_type(@ + 1), !.ev.add_slot = p,
                   !.ev.add_over_live =
                       @ \/ (p \in DOMAIN o.elements /\ o.elements[p] # Uninit)]

\* The loop of shift for dist > 0: dst runs down from end + dist.
RECURSIVE shift_up(_, _, _, _, _)
shift_up(o, beg, end, dst, junk) ==
    IF end > beg
    THEN LET src == end - 1
             o1 == Construct([o EXCEPT !.ev.uninit_read =
                                 @ \/ ~(src \in DOMAIN o.elements /\ o.elements[src] # Uninit),
                                       !.ev.oob = @ \/ ~InCapacity(src)],
                             dst, Deref(o, src, junk))
             o2 == Destruct(o1, src)
         IN  shift_up([o2 EXCEPT !.ev.moved = @ + 1], beg, src, dst - 1, junk)
    ELSE o

\* The loop of shift for dist < 0: dst runs up from beg + dist.
RECURSIVE shift_down(_, _, _, _, _)
shift_down(o, beg, end, dst, junk) ==
    IF beg < end
    THEN LET o1 == Construct([o EXCEPT !.ev.uninit_read =
                                 @ \/ ~(beg \in DOMAIN o.elements /\ o.elements[beg] # Uninit),
                                       !.ev.oob = @ \/ ~InCapacity(beg)],
                             dst, Deref(o, beg, junk))
             o2 == Destruct(o1, beg)
         IN  shift_down([o2 EXCEPT !.ev.moved = @ + 1], beg + 1, end, dst + 1, junk)
    ELSE o

shift(o, beg, end, dist, junk) ==
    IF dist > 0
    THEN LET o1 == CheckAssert(o, beg >= capacity_start)
             o2 == CheckAssert(o1, end + dist <= capacity_end)
         IN  shift_up(o2, beg, end, end + dist, junk)
    ELSE IF dist < 0
    THEN LET o1 == CheckAssert(o, beg - dist >= capacity_start)
             o2 == CheckAssert(o1, end <= capacity_end)
         IN  shift_down(o2, beg, end, beg + dist, junk)
    ELSE o

\* Variant of reallocate that obtains a larger heap block and returns.
reallocate_grows(o) == [o EXCEPT !.ev.realloc = TRUE, !.ev.allocs = @ + 1]

reallocate(o) == [o EXCEPT !.ev.thrown = TRUE, !.ev.realloc = TRUE]

----------------------------------------------------------------------------
(* FRONT element location *)

FRONT_data_start(o) == capacity_start
FRONT_data_end(o) == capacity_start + size(o)

\* Variant of FRONT push_front that opens the gap before the capacity check.
FRONT_push_front_shift_first(o, e, junk) ==
    LET o2 == shift(o, FRONT_data_start(o), FRONT_data_end(o), 1, junk)
        o1 == IF size(o2) = capacity THEN reallocate(o2) ELSE o2
    IN  IF o1.ev.thrown THEN o1
        ELSE add(o1, FRONT_data_start(o1), e)

FRONT_push_front(o, e, junk) ==
    LET o1 == IF size(o) = capacity THEN reallocate(o) ELSE o
    IN  IF o1.ev.thrown THEN o1
        ELSE LET o2 == shift(o1, FRONT_data_start(o1), FRONT_data_end(o1), 1, junk)
             IN  add(o2, FRONT_data_start(o2), e)

\* Variant of FRONT push_back that appends without looking at the capacity.
FRONT_push_back_unchecked(o, e, junk) ==
    add(o, FRONT_data_end(o), e)

FRONT_push_back(o, e, junk) ==
    LET o1 == IF size(o) = capacity THEN reallocate(o) ELSE o
    IN  IF o1.ev.thrown THEN o1
        ELSE add(o1, FRONT_data_end(o1), e)

(* MIDDLE element location *)

MIDDLE_data_start(o) == capacity_start + o.m_offset
MIDDLE_data_end(o) == capacity_start + o.m_offset + size(o)
back_gap(o) == to_size_type(capacity - (o.m_offset + size(o)))

\* Variant of MIDDLE push_front that asks for more capacity whenever the
\* front gap is used up, instead of recentering.
MIDDLE_push_front_grow_on_gap(o, e, junk) ==
    LET o1 == IF size(o) = capacity \/ o.m_offset = 0 THEN reallocate(o) ELSE o
    IN  IF o1.ev.thrown THEN o1
        ELSE add([o1 EXCEPT !.m_offset = to_size_type(@ - 1)],
                 MIDDLE_data_start(o1) - 1, e)

MIDDLE_push_front(o, e, junk) ==
    LET o1 == IF size(o) = capacity THEN reallocate(o) ELSE o
    IN  IF o1.ev.thrown THEN o1
        ELSE LET o2 == IF o1.m_offset = 0
                       THEN LET offset == (capacity - size(o1)) \div 2
                                o3 == shift(o1, MIDDLE_data_start(o1),
                                            MIDDLE_data_end(o1), offset, junk)
                            IN  [o3 EXCEPT !.m_offset = to_size_type(offset),
                                           !.ev.recentered = TRUE]
                       ELSE [o1 EXCEPT !.m_offset = to_size_type(@ - 1)]
             IN  add(o2, MIDDLE_data_start(o2), e)

\* Variant of MIDDLE push_back that recenters to the start of the block.
MIDDLE_push_back_recenter_to_start(o, e, junk) ==
    LET o1 == IF size(o) = capacity THEN reallocate(o) ELSE o
    IN  IF o1.ev.thrown THEN o1
        ELSE LET o2 == IF back_gap(o1) = 0
                       THEN LET o3 == shift(o1, MIDDLE_data_start(o1),
                                            MIDDLE_data_end(o1),
                                            -(o1.m_offset), junk)
                            IN  [o3 EXCEPT !.m_offset = 0,
                                           !.ev.recentered = TRUE]
                       ELSE o1
             IN  add(o2, MIDDLE_data_end(o2), e)

\* Variant of MIDDLE push_back that never recenters.
MIDDLE_push_back_no_recenter(o, e, junk) ==
    LET o1 == IF size(o) = capacity THEN reallocate(o) ELSE o
    IN  IF o1.ev.thrown THEN o1
        ELSE add(o1, MIDDLE_data_end(o1), e)

MIDDLE_push_back(o, e, junk) ==
    LET o1 == IF size(o) = capacity THEN reallocate(o) ELSE o
    IN  IF o1.ev.thrown THEN o1
        ELSE LET o2 == IF back_gap(o1) = 0
                       THEN LET offset == o1.m_offset \div 2
                                o3 == shift(o1, MIDDLE_data_start(o1),
                                            MIDDLE_data_end(o1),
                                            -(o1.m_offset - offset), junk)
                            IN  [o3 EXCEPT !.m_offset = to_size_type(offset),
                                           !.ev.recentered = TRUE]
                       ELSE o1
             IN  add(o2, MIDDLE_data_end(o2), e)

(* BACK element location *)

BACK_data_start(o) == capacity_end - size(o)
BACK_data_end(o) == capacity_end

\* Variant of BACK push_front that constructs at data_start() itself.
BACK_push_front_at_start(o, e, junk) ==
    LET o1 == IF size(o) = capacity THEN reallocate(o) ELSE o
    IN  IF o1.ev.thrown THEN o1
        ELSE add(o1, BACK_data_start(o1), e)

BACK_push_front(o, e, junk) ==
    LET o1 == IF size(o) = capacity THEN reallocate(o) ELSE o
    IN  IF o1.ev.thrown THEN o1
        ELSE add(o1, BACK_data_start(o1) - 1, e)

\* Variant of BACK push_back that puts the new value below the window.
BACK_push_back_below_window(o, e, junk) ==
    LET o1 == IF size(o) = capacity THEN reallocate(o) ELSE o
    IN  IF o1.ev.thrown THEN o1
        ELSE add(o1, BACK_data_start(o1) - 1, e)

\* Variant of BACK push_back that appends without moving the window.
BACK_push_back_no_shift(o, e, junk) ==
    LET o1 == IF size(o) = capacity THEN reallocate(o) ELSE o
    IN  IF o1.ev.thrown THEN o1
        ELSE add(o1, BACK_data_end(o1) - 1, e)

BACK_push_back(o, e, junk) ==
    LET o1 == IF size(o) = capacity THEN reallocate(o) ELSE o
    IN  IF o1.ev.thrown THEN o1
        ELSE LET o2 == shift(o1, BACK_data_start(o1), BACK_data_end(o1), -1, junk)
             IN  add(o2, BACK_data_end(o2) - 1, e)

----------------------------------------------------------------------------
(* sequence: the facade.  The location is a template parameter, so each    *)
(* call resolves to the member of the one base class instantiated.         *)

data_start(o) ==
    CASE LOC = "FRONT"  -> FRONT_data_start(o)
      [] LOC = "MIDDLE" -> MIDDLE_data_start(o)
      [] LOC = "BACK"   -> BACK_data_start(o)

data_end(o) ==
    CASE LOC = "FRONT"  -> FRONT_data_end(o)
      [] LOC = "MIDDLE" -> MIDDLE_data_end(o)
      [] LOC = "BACK"   -> BACK_data_end(o)

push_front(o, e, junk) ==
    CASE LOC = "FRONT"  -> FRONT_push_front(o, e, junk)
      [] LOC = "MIDDLE" -> MIDDLE_push_front(o, e, junk)
      [] LOC = "BACK"   -> BACK_push_front(o, e, junk)

push_back(o, e, junk) ==
    CASE LOC = "FRONT"  -> FRONT_push_back(o, e, junk)
      [] LOC = "MIDDLE" -> MIDDLE_push_back(o, e, junk)
      [] LOC = "BACK"   -> BACK_push_back(o, e, junk)

\* The slots begin() .. end() ranges over.
Window == data_start(Self) .. (data_end(Self) - 1)

\* What iterating begin() .. end() visits, front to back; a slot that holds
\* no object shows as Uninit.
Iterate == [i \in 1..m_size |-> elements[data_start(Self) + i - 1]]

\* The slots of the live window that hold no object: a shift reads them.
DeadInWindow == {p \in Window : elements[p] = Uninit}

\* ~sequence(): one destructor run per slot of begin() .. end().
RECURSIVE destroy_all(_, _, _)
destroy_all(o, next, end) ==
    IF next # end THEN destroy_all(Destruct(o, next), next + 1, end) ELSE o

----------------------------------------------------------------------------

\* The descriptor of the container main() builds: local, fixed, the default
\* size_type, increment and factor; T is int.
TestTraits ==
    [dynamic |-> FALSE, variable |-> FALSE, size_bits |-> SizeTBits,
     increment |-> 1, factor10 |-> 15, T_move_constructible |-> TRUE]

\* A default-constructed sequence on which nothing has been called yet.
Constructed ==
    /\ m_size = 0
    /\ m_offset = IF LOC = "MIDDLE" THEN to_size_type(CAP \div 2) ELSE 0
    /\ elements = [p \in 0..CAP |-> Uninit]
    /\ hist = <<>>
    /\ calls = 0
    /\ last = [op |-> "none", e |-> 0, result |-> "none", size |-> 0,
               offset |-> 0, ev |-> NoEvents]
    /\ ctors = 0
    /\ dtors = 0
    /\ dtor_runs = 0
    /\ dtor_dead = 0

Init ==
    /\ TRAITS = TestTraits
    /\ LOC \in Locations
    /\ CAP \in 1..MaxCap
    /\ phase = "alive"
    /\ Constructed

\* The caller's view of a push call that ran to r: it returned, it threw
\* std::bad_alloc (caught by the caller), or, after a write behind the
\* array, the program may have ended.
Complete(op, e, r, result) ==
    /\ m_size' = r.m_size
    /\ m_offset' = r.m_offset
    /\ elements' = r.elements
    /\ phase' = IF result = "crash" THEN "crashed" ELSE "alive"
    /\ hist' = IF result = "ok" THEN Append(hist, [op |-> op, e |-> e]) ELSE hist
    /\ calls' = calls + 1
    /\ last' = [op |-> op, e |-> e, result |-> result, size |-> m_size,
                offset |-> m_offset, ev |-> r.ev]
    /\ ctors' = ctors + r.ev.ctors
    /\ dtors' = dtors + r.ev.dtors
    /\ UNCHANGED <<TRAITS, LOC, CAP, dtor_runs, dtor_dead>>

Outcomes(r) ==
    IF r.ev.thrown THEN {"bad_alloc"}
    ELSE IF r.ev.oob THEN {"ok", "crash"}
    ELSE {"ok"}

PushFront(e) ==
    /\ phase = "alive"
    /\ calls < CAP + ExtraCalls
    /\ \E junk \in [DeadInWindow -> Values] :
         LET r == push_front(Self, e, junk)
         IN  \E result \in Outcomes(r) : Complete("push_front", e, r, result)

PushBack(e) ==
    /\ phase = "alive"
    /\ calls < CAP + ExtraCalls
    /\ \E junk \in [DeadInWindow -> Values] :
         LET r == push_back(Self, e, junk)
         IN  \E result \in Outcomes(r) : Complete("push_back", e, r, result)

Destroy ==
    /\ phase = "alive"
    /\ LET r == destroy_all(Self, data_start(Self), data_end(Self))
       IN  /\ elements' = r.elements
           /\ dtor_runs' = r.ev.dtors
           /\ dtor_dead' = Cardinality(DeadInWindow)
           /\ dtors' = dtors + r.ev.dtors
    /\ phase' = "destroyed"
    /\ UNCHANGED <<TRAITS, LOC, CAP, m_size, m_offset, hist, calls, last, ctors>>

Next ==
    \/ \E e \in Values : PushFront(e)
    \/ \E e \in Values : PushBack(e)
    \/ Destroy

Spec == Init /\ [][Next]_vars

\* The same container with a narrow unsigned size_type.
InitW ==
    /\ TRAITS \in {[TestTraits EXCEPT !.size_bits = b] : b \in 1..MaxBits}
    /\ LOC \in Locations
    /\ CAP \in 1..MaxCap
    /\ phase = "alive"
    /\ Constructed

SpecW == InitW /\ [][Next]_vars

----------------------------------------------------------------------------
(* Defining a concrete sequence type from a descriptor.  factor10 is the   *)
(* factor field in tenths.                                                 *)

Descriptors ==
    [dynamic : BOOLEAN, variable : BOOLEAN, size_bits : {SizeTBits},
     increment : 0..MaxIncrement, factor10 : {10, 15},
     T_move_constructible : BOOLEAN]

\* Variant of the static_asserts that lacks the one on increment.
static_asserts_no_increment(t, loc) ==
    /\ ~(t.dynamic = FALSE /\ t.variable = TRUE)
    /\ t.factor10 > 10
    /\ (loc # "MIDDLE" \/ t.T_move_constructible)

\* The static_asserts of class sequence.
static_asserts(t, loc) ==
    /\ ~(t.dynamic = FALSE /\ t.variable = TRUE)
    /\ t.increment > 0
    /\ t.factor10 > 10
    /\ (loc # "MIDDLE" \/ t.T_move_constructible)

\* The using-declarations of sequence_management name capacity_start, add,
\* shift and reallocate in the storage base; the local fixed storage is the
\* only specialisation that declares them.
storage_has_primitives(t) == t.dynamic = FALSE /\ t.variable = FALSE

InitT ==
    /\ TRAITS \in Descriptors
    /\ LOC \in Locations
    /\ CAP \in 1..MaxCap
    /\ phase = "declared"
    /\ Constructed

\* sequence<T, TRAITS> s: the type is instantiated or the build fails.
Instantiate ==
    /\ phase = "declared"
    /\ phase' = IF static_asserts(TRAITS, LOC) /\ storage_has_primitives(TRAITS)
                THEN "alive" ELSE "ill_formed"
    /\ UNCHANGED <<TRAITS, LOC, CAP, m_size, m_offset, elements, hist, calls,
                   last, ctors, dtors, dtor_runs, dtor_dead>>

NextT == Instantiate \/ Next

SpecT == InitT /\ [][NextT]_vars

\* A MIDDLE container with room for an offset above 1, so that halving the
\* offset differs from dropping it to 0.
InitM ==
    /\ TRAITS = TestTraits
    /\ LOC = "MIDDLE"
    /\ CAP \in 1..MaxMiddleCap
    /\ phase = "alive"
    /\ Constructed

SpecM == InitM /\ [][Next]_vars

----------------------------------------------------------------------------
(* shift on its own: a storage whose live elements are exactly [beg, end), *)
(* and a distance that keeps the moved range inside the capacity.          *)

NoJunk == [p \in {} |-> Uninit]

InitS ==
    /\ TRAITS = TestTraits
    /\ LOC = "FRONT"
    /\ CAP \in 1..MaxCap
    /\ phase = "shift_input"
    /\ \E beg \in 0..CAP, end \in 0..CAP, dist \in (-CAP)..CAP,
          content \in [0..(CAP - 1) -> Values] :
          /\ beg <= end
          /\ dist > 0 => end + dist <= CAP
          /\ dist < 0 => beg + dist >= 0
          /\ elements = [p \in 0..CAP |->
                            IF p >= beg /\ p < end THEN content[p] ELSE Uninit]
          /\ m_size = end - beg
          /\ m_offset = beg
          /\ last = [op |-> "shift", beg |-> beg, end |-> end, dist |-> dist,
                     before |-> elements, result |-> "none", ev |-> NoEvents]
    /\ hist = <<>>
    /\ calls = 0
    /\ ctors = 0
    /\ dtors = 0
    /\ dtor_runs = 0
    /\ dtor_dead = 0

ShiftCall ==
    /\ phase = "shift_input"
    /\ LET r == shift(Self, last.beg, last.end, last.dist, NoJunk)
       IN  /\ elements' = r.elements
           /\ last' = [last EXCEPT !.result = "ok", !.ev = r.ev]
           /\ ctors' = ctors + r.ev.ctors
           /\ dtors' = dtors + r.ev.dtors
    /\ phase' = "shift_done"
    /\ UNCHANGED <<TRAITS, LOC, CAP, m_size, m_offset, hist, calls,
                   dtor_runs, dtor_dead>>

SpecS == InitS /\ [][ShiftCall]_vars

----------------------------------------------------------------------------
(* The abstract double-ended sequence the successful pushes describe. *)

Reverse(s) == [i \in 1..Len(s) |-> s[Len(s) + 1 - i]]

HistVals == [i \in 1..Len(hist) |-> hist[i].e]

OnlyOp(op) == \A i \in 1..Len(hist) : hist[i].op = op

UsesOp(op) == \E i \in 1..Len(hist) : hist[i].op = op

RECURSIVE Deque(_)
Deque(h) ==
    IF h = <<>> THEN <<>>
    ELSE LET r == Deque(SubSeq(h, 1, Len(h) - 1))
             x == h[Len(h)]
         IN  IF x.op = "push_front" THEN <<x.e>> \o r ELSE Append(r, x.e)

----------------------------------------------------------------------------
\* C1: a BACK-located container of capacity C that has only seen push_front:
\* after n <= C pushes size() is n and begin()..end() yields vn, ..., v1;
\* every push made with size() < C succeeds; the push made with size() = C
\* fails with std::bad_alloc and leaves the C elements and their order as
\* they were.
C1_BackPushFront ==
    (LOC = "BACK" /\ phase = "alive" /\ OnlyOp("push_front")
       /\ last.op \in {"none", "push_front"}) =>
        /\ m_size = Len(hist)
        /\ m_size <= CAP
        /\ Iterate = Reverse(HistVals)
        /\ (last.op = "push_front" =>
              /\ (last.size < CAP => last.result = "ok")
              /\ (last.size = CAP => last.result = "bad_alloc" /\ m_size = CAP))

C1_Witness ==
    /\ LOC = "BACK" /\ CAP = 3 /\ phase = "alive"
    /\ OnlyOp("push_front") /\ Len(hist) = CAP
    /\ last.op = "push_front" /\ last.result = "bad_alloc"
    /\ Iterate = <<2, 1, 2>>

\* C2: on every location variant and for every mix of push_front and
\* push_back, the first capacity() push calls succeed, the next one fails
\* with std::bad_alloc, and size() = capacity() afterwards.
C2_PushPastCapacity ==
    /\ (last.op # "none" /\ calls <= CAP) => last.result = "ok"
    /\ calls = CAP + 1 => (last.result = "bad_alloc" /\ m_size = CAP)

\* C3: a push call that fails with std::bad_alloc leaves size(), the MIDDLE
\* offset, every slot and the iteration order as they were, and has moved,
\* constructed and destroyed nothing.
C3_StrongGuarantee ==
    [][(calls' = calls + 1 /\ last'.result = "bad_alloc") =>
          /\ m_size' = m_size
          /\ m_offset' = m_offset
          /\ elements' = elements
          /\ Iterate' = Iterate
          /\ ctors' = ctors
          /\ dtors' = dtors
          /\ last'.ev.moved = 0]_vars

C3_Witness ==
    /\ LOC = "FRONT" /\ CAP = 3 /\ phase = "alive"
    /\ last.result = "bad_alloc" /\ m_size = CAP
    /\ OnlyOp("push_back")

\* C4: on every location variant, push_back(v1), ..., push_back(vn) on an
\* empty container, n <= capacity(), makes begin()..end() yield v1, ..., vn.
C4_PushBackRoundTrip ==
    (phase = "alive" /\ OnlyOp("push_back")) =>
        /\ m_size = Len(hist)
        /\ Iterate = HistVals

C4_Witness ==
    /\ LOC = "BACK" /\ CAP = 3 /\ phase = "alive"
    /\ OnlyOp("push_back") /\ Len(hist) = CAP
    /\ last.result = "ok" /\ last.ev.moved = 2
    /\ Iterate = <<1, 2, 2>>

\* C5: on every location variant, push_front(v1), ..., push_front(vn) on an
\* empty container, n <= capacity(), makes begin()..end() yield vn, ..., v1.
C5_PushFrontRoundTrip ==
    (phase = "alive" /\ OnlyOp("push_front")) =>
        /\ m_size = Len(hist)
        /\ Iterate = Reverse(HistVals)

\* C6: on every location variant, after any interleaving of successful
\* pushes begin()..end() yields the abstract double-ended sequence (each
\* push_front value prepended, each push_back value appended) and size() is
\* the number of successful pushes.
C6_IterationIsLogicalOrder ==
    phase = "alive" =>
        /\ m_size = Len(hist)
        /\ Iterate = Deque(hist)

\* C7: a MIDDLE-located container keeps 0 <= offset and
\* offset + size() <= capacity(), initially and after every push call,
\* successful or failed.
C7_MiddleInvariant ==
    LOC = "MIDDLE" =>
        /\ 0 <= m_offset
        /\ m_offset + m_size <= CAP

C7_Witness ==
    /\ LOC = "MIDDLE" /\ CAP = 3 /\ phase = "alive"
    /\ UsesOp("push_front") /\ UsesOp("push_back")
    /\ m_size = CAP
    /\ last.result = "bad_alloc"

\* C8: after every completed push, every slot of [data_start(), data_end())
\* holds a constructed element and every other slot of the capacity holds
\* none.
C8_StorageBlockInvariant ==
    phase = "alive" =>
        \A p \in 0..(CAP - 1) : (p \in Window) <=> (elements[p] # Uninit)

\* C9: ~sequence runs the element destructor exactly size() times, each time
\* on a live element, and leaves no element that was constructed
\* undestroyed.
C9_DestructorDestroysLiveWindow ==
    phase = "destroyed" =>
        /\ dtor_runs = m_size
        /\ dtor_dead = 0
        /\ \A p \in DOMAIN elements : elements[p] = Uninit
        /\ ctors = dtors

\* C10: a push call invokes reallocate() only if size() = capacity() held
\* when it was entered, so a push entered with size() < capacity() never
\* fails with std::bad_alloc.
C10_ReallocateOnlyWhenFull ==
    /\ last.ev.realloc => last.size = CAP
    /\ (last.op # "none" /\ last.size < CAP) => last.result # "bad_alloc"

C10_Witness ==
    /\ LOC = "MIDDLE" /\ CAP = 3 /\ phase = "alive"
    /\ last.op = "push_front" /\ last.result = "ok"
    /\ last.size < CAP /\ last.offset = 0 /\ last.ev.moved > 0

\* C11: whatever the width of size_type, the container behaves as with an
\* unbounded counter: size() is the number of successful pushes and never
\* wraps, no push succeeds once capacity() pushes have, and the MIDDLE
\* offset stays within its bounds.
C11_WidthIsNotSemantics ==
    phase = "alive" =>
        /\ m_size = Len(hist)
        /\ Len(hist) <= CAP
        /\ (last.result = "bad_alloc" => Len(hist) = CAP)
        /\ (LOC = "MIDDLE" => m_offset + m_size <= CAP)

\* C12: the local fixed storage never allocates and never reallocates
\* successfully: after any push call, successful or failed, capacity() is
\* the configured CAP, the slots are those of the inline array, no heap
\* block was obtained, and a call that reached reallocate() failed.
C12_LocalFixedNeverAllocates ==
    /\ capacity = CAP
    /\ DOMAIN elements = 0..CAP
    /\ last.ev.allocs = 0
    /\ (last.ev.realloc => last.result = "bad_alloc")

C12_Witness ==
    /\ LOC = "MIDDLE" /\ CAP = 3 /\ phase = "alive"
    /\ calls = CAP + 1 /\ Len(hist) = CAP
    /\ last.ev.realloc /\ last.result = "bad_alloc"

\* C14: a container instance exists only for a descriptor with
\* (dynamic = false => variable = false) and increment > 0; any other
\* descriptor is rejected when the type is defined.
C14_OnlyValidDescriptors ==
    /\ phase \in {"alive", "destroyed", "crashed"} =>
          /\ (TRAITS.dynamic = FALSE => TRAITS.variable = FALSE)
          /\ TRAITS.increment > 0
    /\ phase = "ill_formed" => (m_size = 0 /\ calls = 0)

C14_Witness ==
    /\ phase = "ill_formed"
    /\ TRAITS.dynamic = FALSE /\ TRAITS.variable = FALSE
    /\ TRAITS.increment = 0 /\ TRAITS.factor10 = 15
    /\ LOC = "BACK"

\* C15: shift(beg, end, dist) moves the live range [beg, end) by exactly dist
\* slots, for dist > 0 and dist < 0: the element of slot i is afterwards
\* live at slot i + dist in unchanged order, every other slot holds no
\* element (the vacated slots are uninitialised, no slot outside the two
\* ranges is touched), and dist = 0 or an empty range changes nothing.
C15_ShiftMovesByDistance ==
    phase = "shift_done" =>
        /\ \A i \in last.beg..(last.end - 1) :
              elements[i + last.dist] = last.before[i]
        /\ \A p \in 0..CAP :
              p \notin (last.beg + last.dist)..(last.end + last.dist - 1)
                  => elements[p] = Uninit
        /\ (last.dist = 0 \/ last.beg = last.end) => elements = last.before

\* C16: every add a push operation makes constructs at a slot inside the
\* capacity that held no object when add was called, and raises size() by
\* exactly one.
C16_AddTargetsFreeSlot ==
    (last.op \in {"push_front", "push_back"} /\ last.ev.add_slot # -1) =>
        /\ last.ev.add_slot \in capacity_start..(capacity_end - 1)
        /\ ~last.ev.add_over_live
        /\ m_size = last.size + 1

\* C17: no assertion of add or shift fails in any execution made of
\* push_front and push_back calls, on any location variant.
C17_AssertionsHold ==
    last.op \in {"push_front", "push_back"} => ~last.ev.assert_failed

C17_Witness ==
    /\ LOC = "FRONT" /\ last.op = "push_front" /\ last.result = "ok"
    /\ last.size = CAP - 1 /\ last.ev.moved = CAP - 1 /\ CAP = 3
    /\ ~last.ev.assert_failed

\* C18: FRONT push_front on a container that is not full puts the new value
\* in slot 0, moves the element of every slot i < old size to slot i + 1,
\* and leaves the live window [0, old size + 1) with nothing live behind it.
C18_FrontPushFrontOpensGap ==
    [][(LOC = "FRONT" /\ calls' = calls + 1 /\ last'.op = "push_front"
            /\ m_size < CAP) =>
          /\ m_size' = m_size + 1
          /\ elements'[0] = last'.e
          /\ \A i \in 0..(m_size - 1) : elements'[i + 1] = elements[i]
          /\ \A p \in (m_size + 1)..CAP : elements'[p] = Uninit]_vars

\* C19: MIDDLE push_front on a container that is not full sets offset to
\* (capacity - old size) \div 2 when offset was 0 and to offset - 1 otherwise
\* (then moving nothing); the new value is at slot offset and the old
\* elements follow it directly, in their order, none overwritten or lost.
C19_MiddlePushFront ==
    [][(LOC = "MIDDLE" /\ calls' = calls + 1 /\ last'.op = "push_front"
            /\ m_size < CAP) =>
          /\ m_offset' = IF m_offset = 0 THEN (CAP - m_size) \div 2
                                        ELSE m_offset - 1
          /\ m_size' = m_size + 1
          /\ elements'[m_offset'] = last'.e
          /\ \A i \in 0..(m_size - 1) :
                elements'[m_offset' + 1 + i] = elements[m_offset + i]
          /\ m_offset # 0 => last'.ev.moved = 0]_vars

\* C20: MIDDLE push_back on a container that is not full: with a back gap of
\* 0 the offset becomes old offset \div 2 and every element moves
\* old offset - (old offset \div 2) slots lower in unchanged order;
\* otherwise nothing moves and the offset stays.  The new value is
\* constructed right behind the old elements and is the last of the window.
C20_MiddlePushBack ==
    [][(LOC = "MIDDLE" /\ calls' = calls + 1 /\ last'.op = "push_back"
            /\ m_size < CAP) =>
          LET gap  == CAP - (m_offset + m_size)
              half == m_offset \div 2
              off  == IF gap = 0 THEN half ELSE m_offset
              d    == m_offset - off
          IN  /\ last'.result = "ok"
              /\ m_offset' = off
              /\ m_size' = m_size + 1
              /\ \A i \in m_offset..(m_offset + m_size - 1) :
                    elements'[i - d] = elements[i]
              /\ elements'[off + m_size] = last'.e
              /\ \A p \in 0..CAP :
                    p \notin off..(off + m_size) =>
                        elements'[p] = IF p \in m_offset..(m_offset + m_size - 1)
                                       THEN Uninit ELSE elements[p]
              /\ last'.ev.moved = IF gap = 0 THEN m_size ELSE 0
              /\ last'.ev.add_slot = data_end(Self)' - 1]_vars

C20_Witness ==
    /\ LOC = "MIDDLE" /\ CAP = 4 /\ phase = "alive"
    /\ last.op = "push_back" /\ last.result = "ok"
    /\ last.offset = 2 /\ m_offset = 1 /\ last.ev.moved = 2

\* C21: on BACK the live slots are exactly [capacity_end - size(),
\* capacity_end) after any successful pushes; push_back on a container that
\* is not full moves every element one slot lower in unchanged order and
\* puts the new value in the last slot of the capacity; push_front puts the
\* new value one slot below the old data_start() and moves nothing.
C21_BackAnchoredAtHighEnd ==
    /\ []((LOC = "BACK" /\ phase = "alive") =>
            \A p \in 0..CAP :
                (elements[p] # Uninit) <=> (p >= CAP - m_size /\ p < CAP))
    /\ [][(LOC = "BACK" /\ calls' = calls + 1 /\ m_size < CAP) =>
            /\ last'.result = "ok"
            /\ m_size' = m_size + 1
            /\ last'.op = "push_back" =>
                  /\ \A i \in (CAP - m_size)..(CAP - 1) :
                        elements'[i - 1] = elements[i]
                  /\ elements'[CAP - 1] = last'.e
                  /\ last'.ev.moved = m_size
            /\ last'.op = "push_front" =>
                  /\ \A i \in (CAP - m_size)..(CAP - 1) :
                        elements'[i] = elements[i]
                  /\ elements'[CAP - m_size - 1] = last'.e
                  /\ last'.ev.add_slot = BACK_data_start(Self) - 1
                  /\ last'.ev.moved = 0]_vars

C21_Witness ==
    /\ LOC = "BACK" /\ CAP = 3 /\ phase = "alive"
    /\ last.op = "push_back" /\ last.result = "ok"
    /\ last.size = 2 /\ last.ev.moved = 2 /\ UsesOp("push_front")

\* The pushes that need no gap: FRONT push_back, BACK push_front, MIDDLE
\* push_front with offset > 0, MIDDLE push_back with a back gap > 0.
NeedsNoGap(op) ==
    \/ LOC = "FRONT" /\ op = "push_back"
    \/ LOC = "BACK" /\ op = "push_front"
    \/ LOC = "MIDDLE" /\ op = "push_front" /\ m_offset > 0
    \/ LOC = "MIDDLE" /\ op = "push_back" /\ back_gap(Self) > 0

\* C22: a push that needs no gap changes no slot other than the one that
\* receives the new value, and every element that was live before the call
\* is afterwards in the same slot with the same value.
C22_NoGapPushKeepsElements ==
    [][(calls' = calls + 1 /\ NeedsNoGap(last'.op)) =>
          /\ last'.ev.moved = 0
          /\ \A p \in 0..CAP :
                /\ p # last'.ev.add_slot => elements'[p] = elements[p]
                /\ elements[p] # Uninit => elements'[p] = elements[p]]_vars

\* C23: in the MIDDLE pushes the recenter step runs only on a container with
\* size() < capacity(), and after it the side being pushed to has a free
\* slot for add: add constructs inside the capacity at a slot that holds no
\* element.
C23_RecenterMakesRoom ==
    (LOC = "MIDDLE" /\ last.ev.recentered) =>
        /\ last.size < CAP
        /\ last.ev.add_slot \in capacity_start..(capacity_end - 1)
        /\ ~last.ev.add_over_live

\* C24: in every push_front and push_back, on every location variant, each
\* slot that add or shift constructs into, reads from or destroys lies
\* inside [capacity_start(), capacity_end()), also when size() was
\* capacity() - 1 before the push.
C24_PushesStayInCapacity ==
    last.op \in {"push_front", "push_back"} => ~last.ev.oob

====
